---- MODULE Spec2Model ----
(***************************************************************************)
(* A model of scrutinizer's examination engine (lib/index.js): the plugin  *)
(* selection (filterPlugins), the sequential pipeline driven by            *)
(* Bluebird.reduce (examineGitRepository) and the two entry points         *)
(* (local, remote).                                                        *)
(*                                                                         *)
(* A JavaScript object is modelled as the sequence of its own enumerable   *)
(* properties in insertion order, each a record [key, value]; a plugin     *)
(* function is identified by the path it is required from.                 *)
(***************************************************************************)
EXTENDS Integers, Sequences, FiniteSets, TLC

VARIABLES
    entry,        \* the entry point called: "none", "local" or "remote"
    whitelist,    \* options.whitelistPlugins: [kind, names]
    progress,     \* TRUE when options.progress is supplied
    pc,           \* position of the call
    alive,        \* TRUE while the host process runs
    tmpDirs,      \* the temporary directories that exist on disk
    repository,   \* options.repository given to examineGitRepository
    plugins,      \* options.plugins: the list returned by filterPlugins
    index,        \* index of the reducer call of Bluebird.reduce (0-based)
    accumulator,  \* the accumulator threaded through Bluebird.reduce
    pluginResult, \* the value the pending plugin promise fulfilled with
    outcome,      \* state of the promise returned: pending, fulfilled, rejected
    result,       \* the value the promise fulfilled with
    error,        \* the error the promise rejected with
    raised,       \* the failure that was raised: [stage, index, error]
    reports,      \* the percentages the progress sink was called with
    backends,     \* the Backend constructed constructed, in order
    invoked,      \* the plugin calls made, in order: [plugin, backend, index]
    merged,       \* the number of merges into the accumulator
    clones,       \* the clones started by local: [source, target, done]
    sinkReturned, \* what the last call of the progress sink returned
    files,        \* the files of the repository a plugin reads
    runs,         \* the state of each of two concurrent calls
    heap,         \* the accumulator objects of the concurrent calls, by address
    constructed     \* the Backend constructed of the concurrent calls

vars == <<entry, whitelist, progress, pc, alive, tmpDirs, repository, plugins,
          index, accumulator, pluginResult, outcome, result, error, raised,
          reports, backends, invoked, merged,
          clones,
          sinkReturned,
          files,
          runs,
          heap,
          constructed>>

-----------------------------------------------------------------------------
(* Bounds of the model *)

\* longest whitelist given to filterPlugins in the selection specification
MaxWhitelistLen == 3

\* longest whitelist given to local and remote in the run specification
MaxRunWhitelistLen == 2

-----------------------------------------------------------------------------
(* lib/index.js: BUILTIN_PLUGINS *)

\* the own keys of BUILTIN_PLUGINS, in declaration order
BUILTIN_KEYS ==
    << "license", "blog", "changelog", "contributing", "contributors", "docs",
       "security", "faq", "code-of-conduct", "architecture", "maintainers",
       "readme", "readme-sections", "github-metadata", "dependencies",
       "last-commit-date", "latest-release", "latest-prerelease",
       "open-issues", "version", "deployButtons", "screenshot", "logo",
       "logoBrandMark" >>

\* the module each key of BUILTIN_PLUGINS is required from
PluginModule(key) ==
    IF key = "logoBrandMark" THEN "./plugins/logo-brandmark"
    ELSE "./plugins/" \o key

BUILTIN_PLUGINS ==
    [i \in 1..Len(BUILTIN_KEYS) |->
        [key |-> BUILTIN_KEYS[i], value |-> PluginModule(BUILTIN_KEYS[i])]]

\* BUILTIN_PLUGINS is an object literal: its prototype is Object.prototype,
\* whose members are reached by the `in` operator that _.pick tests with
InheritedKeys == {"toString"}

\* names that are neither own nor inherited properties of BUILTIN_PLUGINS
UnknownNames == {"nope"}

-----------------------------------------------------------------------------
(* JavaScript objects and the lodash functions filterPlugins calls *)

Range(s) == {s[i] : i \in 1..Len(s)}

OwnKeys(object) == {object[i].key : i \in 1..Len(object)}

\* object[key]: the own property, else the one inherited from Object.prototype
Get(object, key) ==
    IF key \in OwnKeys(object)
    THEN (CHOOSE p \in Range(object) : p.key = key).value
    ELSE "Object.prototype." \o key

\* key in object
HasIn(object, key) == key \in OwnKeys(object) \/ key \in InheritedKeys

\* result[key] = value: a new key is appended, an existing key keeps its place
AssignValue(object, key, value) ==
    IF key \in OwnKeys(object)
    THEN [i \in 1..Len(object) |->
            IF object[i].key = key THEN [key |-> key, value |-> value]
            ELSE object[i]]
    ELSE Append(object, [key |-> key, value |-> value])

\* _.pick(object, paths): walks the paths in the order given and copies each
\* property that is `in` object to a new object
RECURSIVE basePickBy(_, _, _)
basePickBy(object, paths, picked) ==
    IF paths = <<>> THEN picked
    ELSE LET key == Head(paths)
         IN  basePickBy(object, Tail(paths),
                IF HasIn(object, key)
                THEN AssignValue(picked, key, Get(object, key))
                ELSE picked)

\* a pick that walks the keys of the object and keeps those that are listed
pickInObjectOrder(object, paths) ==
    SelectSeq(object, LAMBDA p : p.key \in Range(paths))

pick(object, paths) == basePickBy(object, paths, <<>>)

\* _.values(object): the own enumerable property values, in key order
values(object) == [i \in 1..Len(object) |-> object[i].value]

\* a test of emptiness that takes only an array of length 0 as empty
isEmptyArrayOnly(value) == value.kind = "array" /\ Len(value.names) = 0

\* _.isEmpty(value): true of undefined, null and of an array of length 0
isEmpty(value) ==
    \/ value.kind \in {"undefined", "null"}
    \/ value.kind = "array" /\ Len(value.names) = 0

-----------------------------------------------------------------------------
(* lib/index.js: filterPlugins *)

filterPlugins(pluginWhitelist) ==
    LET filtered == IF ~isEmpty(pluginWhitelist)
                    THEN pick(BUILTIN_PLUGINS, pluginWhitelist.names)
                    ELSE BUILTIN_PLUGINS
    IN  values(filtered)

-----------------------------------------------------------------------------
(* Values of partial results and of the accumulator.  A mapping and a      *)
(* sequence are both JavaScript objects: a function from property names to *)
(* values, tagged "object" or "array"; the elements of an array are the    *)
(* properties "0", "1", ...                                                *)

Undefined == [t |-> "undefined"]
Null == [t |-> "null"]
Num(n) == [t |-> "number", v |-> n]
Obj(m) == [t |-> "object", m |-> m]
Arr(m) == [t |-> "array", m |-> m]

EmptyMap == [k \in {} |-> Undefined]
EmptyObject == Obj(EmptyMap)
EmptyArray == Arr(EmptyMap)

\* _.isObject(value)
isObject(value) == value.t \in {"object", "array"}

Keys(object) == DOMAIN object.m

\* object[key], undefined when the property is missing
Prop(object, key) ==
    IF isObject(object) /\ key \in Keys(object) THEN object.m[key] ELSE Undefined

\* lodash assignMergeValue(object, key, value): the value object[key] has
\* afterwards; an undefined value is assigned only to a missing key
assignMergeValue(object, key, value) ==
    IF value # Undefined THEN value
    ELSE IF key \in Keys(object) THEN object.m[key] ELSE Undefined

\* a destination that an array source always replaces by a new array
MergeTargetFresh(objValue, srcValue) ==
    IF srcValue.t = "array" THEN EmptyArray
    ELSE IF isObject(objValue) THEN objValue ELSE EmptyObject

\* lodash baseMergeDeep: the destination that the source value is merged into
MergeTarget(objValue, srcValue) ==
    IF srcValue.t = "array"
    THEN IF objValue.t = "array" THEN objValue ELSE EmptyArray
    ELSE IF isObject(objValue) THEN objValue ELSE EmptyObject

\* lodash baseMerge(object, source): every property of source is merged into
\* object, recursively when the source value is an array or a plain object
RECURSIVE baseMerge(_, _)
baseMerge(object, source) ==
    [t |-> object.t,
     m |-> [key \in Keys(object) \cup Keys(source) |->
              IF key \notin Keys(source) THEN object.m[key]
              ELSE LET srcValue == source.m[key]
                   IN  IF isObject(srcValue)
                       THEN baseMerge(MergeTarget(Prop(object, key), srcValue),
                                      srcValue)
                       ELSE assignMergeValue(object, key, srcValue)]]

\* a merge in which the value already in the object wins over the source
mergeKeepingFirst(object, source) ==
    IF isObject(source) THEN baseMerge(source, object) ELSE object

\* _.merge(object, source): a source that is null or undefined is skipped
merge(object, source) ==
    IF isObject(source) THEN baseMerge(object, source) ELSE object

-----------------------------------------------------------------------------
(* The whitelists a caller can pass *)

RECURSIVE SeqsUpTo(_, _)
SeqsUpTo(S, n) ==
    IF n = 0 THEN {<<>>}
    ELSE LET shorter == SeqsUpTo(S, n - 1)
         IN  shorter \cup
             {Append(s, x) : s \in {t \in shorter : Len(t) = n - 1}, x \in S}

AllNames == Range(BUILTIN_KEYS) \cup InheritedKeys \cup UnknownNames

Whitelists(names, maxLen) ==
    {[kind |-> "undefined", names |-> <<>>], [kind |-> "null", names |-> <<>>]}
    \cup {[kind |-> "array", names |-> s] : s \in SeqsUpTo(names, maxLen)}

-----------------------------------------------------------------------------
(* What the caller passes and what the collaborators answer *)

\* gitRepository and options.reference of the call
GitRepository == "user/repo"
Reference == "master"

\* the directory tmp.dirAsync creates (prefix `${packageJSON.name}_`)
TemporaryDirectory == "/tmp/scrutinizer_1"

\* the names a whitelist of a run is made of: two registered names in both
\* orders, an unknown name and a name inherited from Object.prototype
RunNames == {"license", "readme"} \cup UnknownNames \cup InheritedKeys

\* an array whose elements are the members of the sequence s
ArrOf(s) ==
    Arr([k \in {ToString(i - 1) : i \in 1..Len(s)} |->
            s[CHOOSE i \in 1..Len(s) : ToString(i - 1) = k]])

\* the partial results an extractor can fulfil with
PartialResults ==
    { EmptyObject,
      Obj("f" :> Num(1)),
      Obj("f" :> Num(2)),
      Obj("f" :> Null),
      Obj("f" :> Undefined),
      Obj("g" :> Num(1)),
      Obj("f" :> Obj("x" :> Num(1))),
      Obj("f" :> Obj("x" :> Num(2) @@ "y" :> Num(1))),
      Obj("f" :> ArrOf(<<Num(1), Num(2)>>)),
      Obj("f" :> ArrOf(<<Num(2)>>)),
      Obj("f" :> ArrOf(<<>>)) }

\* the errors the collaborators fail with
TmpErrors == {"ENOSPC"}
CloneErrors == {"CloneError"}
SinkErrors == {"SinkError"}

\* the values the progress sink returns
SinkReturns == {"undefined", "false"}

\* the files of the repository the plugins read; "" is a file that is missing
FileNames ==
    {".versionbot/CHANGELOG.yml", "CHANGELOG.md", "ARCHITECTURE.md",
     "docs/ARCHITECTURE.md"}
NoFiles == [name \in FileNames |-> ""]
InitErrors == {"ReferenceNotFoundError", "BackendUnavailableError"}
PluginErrors == {"BackendIOError", "PluginError"}

NoFailure == [stage |-> "none", index |-> -1, error |-> "none"]

\* the concurrent calls
Runs == {"A", "B"}

\* what the two calls are given
TwoRunWhitelists ==
    {[kind |-> "array", names |-> <<"license">>],
     [kind |-> "array", names |-> <<"readme", "license">>]}

TwoRunPartials == {Obj("f" :> Num(1)), Obj("f" :> Num(2)), Obj("g" :> Num(1))}

IdleRun(names, sink) ==
    [entry |-> "none", whitelist |-> names, progress |-> sink, pc |-> "idle",
     repository |-> GitRepository, tmpDir |-> "none", plugins |-> <<>>,
     index |-> 0, acc |-> 0, pluginResult |-> Undefined,
     outcome |-> "pending", result |-> 0, error |-> "none",
     raised |-> NoFailure, reports |-> <<>>, backends |-> <<>>,
     invoked |-> <<>>, merged |-> 0, solo |-> EmptyObject]

IdleRuns == [r \in Runs |-> IdleRun([kind |-> "undefined", names |-> <<>>], FALSE)]

-----------------------------------------------------------------------------
(* lib/index.js: BACKENDS and the call of a plugin *)

\* the Backend class each entry point passes to examineGitRepository
BACKENDS == [local |-> "fs", remote |-> "github"]

\* one Backend kept for the whole run, initialized again for each extractor
ReuseBackend(instances, type, repo, ref) ==
    IF instances = <<>>
    THEN <<[type |-> type, repository |-> repo, reference |-> ref,
            inits |-> 1, ready |-> FALSE]>>
    ELSE [instances EXCEPT ![Len(instances)].inits = @ + 1]

\* new options.backend(options.repository, options.reference) followed by
\* backend.init(): the instance is appended to the instances constructed
NewBackend(instances, type, repo, ref) ==
    Append(instances,
           [type |-> type, repository |-> repo, reference |-> ref,
            inits |-> 1, ready |-> FALSE])

\* the values of BUILTIN_PLUGINS are functions that return a promise
IsPlugin(value) == \E i \in 1..Len(BUILTIN_PLUGINS) : BUILTIN_PLUGINS[i].value = value

\* a percentage counted from the extractors completed after this one
PercentageOneBased(i, length) == ((i + 1) * 100) \div length

\* Math.floor(index * 100 / options.plugins.length)
Percentage(i, length) == (i * 100) \div length

-----------------------------------------------------------------------------
(* Settling of the promise returned by local or remote *)

Reject(stage, e) ==
    /\ outcome' = "rejected"
    /\ error' = e
    /\ raised' = [stage |-> stage, index |-> index, error |-> e]
    /\ pc' = "done"
    /\ UNCHANGED result

Fulfil(value) ==
    /\ outcome' = "fulfilled"
    /\ result' = value
    /\ pc' = "done"
    /\ UNCHANGED <<error, raised>>

Pending == UNCHANGED <<outcome, result, error, raised>>

\* examineGitRepository(options): Bluebird.reduce starts at index 0 with
\* options.accumulator
Examine(repo, selected) ==
    /\ repository' = repo
    /\ plugins' = selected
    /\ accumulator' = EmptyObject
    /\ index' = 0
    /\ pc' = "reduce"

-----------------------------------------------------------------------------
(* lib/index.js: exports.remote *)

Remote ==
    /\ alive /\ pc = "idle"
    /\ entry' = "remote"
    /\ Examine(GitRepository, filterPlugins(whitelist))
    /\ Pending
    /\ UNCHANGED <<whitelist, progress, alive, tmpDirs, pluginResult, reports,
                   backends, invoked, merged>>
    /\ UNCHANGED <<clones, sinkReturned, files, runs, heap, constructed>>

-----------------------------------------------------------------------------
(* lib/index.js: exports.local *)

\* tmp.dirAsync is called
Local ==
    /\ alive /\ pc = "idle"
    /\ entry' = "local"
    /\ pc' = "tmp"
    /\ Pending
    /\ UNCHANGED <<whitelist, progress, alive, tmpDirs, repository, plugins,
                   index, accumulator, pluginResult, reports, backends,
                   invoked, merged>>
    /\ UNCHANGED <<clones, sinkReturned, files, runs, heap, constructed>>

\* tmp.dirAsync fulfils with the path of the new directory, and the clone is
\* started; the cleanup callback of tmp is not passed on by promisifyAll
TmpDirFulfil ==
    /\ alive /\ pc = "tmp"
    /\ tmpDirs' = tmpDirs \cup {TemporaryDirectory}
    /\ clones' = Append(clones, [source |-> GitRepository,
                                 target |-> TemporaryDirectory,
                                 done |-> FALSE])
    /\ pc' = "clone"
    /\ Pending
    /\ UNCHANGED <<entry, whitelist, progress, alive, repository, plugins,
                   index, accumulator, pluginResult, reports, backends,
                   invoked, merged>>
    /\ UNCHANGED <<sinkReturned, files, runs, heap, constructed>>

TmpDirReject ==
    /\ alive /\ pc = "tmp"
    /\ \E e \in TmpErrors : Reject("tmp", e)
    /\ UNCHANGED <<entry, whitelist, progress, alive, tmpDirs, repository,
                   plugins, index, accumulator, pluginResult, reports,
                   backends, invoked, merged>>
    /\ UNCHANGED <<clones, sinkReturned, files, runs, heap, constructed>>

\* git().clone(gitRepository, temporaryDirectory) fulfils: the temporary
\* repository is examined
\* a local that examines the caller's repository in place
CloneFulfilInPlace ==
    /\ alive /\ pc = "clone"
    /\ clones' = [clones EXCEPT ![Len(clones)].done = TRUE]
    /\ Examine(GitRepository, filterPlugins(whitelist))
    /\ Pending
    /\ UNCHANGED <<entry, whitelist, progress, alive, tmpDirs, pluginResult,
                   reports, backends, invoked, merged>>
    /\ UNCHANGED <<sinkReturned, files, runs, heap, constructed>>

CloneFulfil ==
    /\ alive /\ pc = "clone"
    /\ clones' = [clones EXCEPT ![Len(clones)].done = TRUE]
    /\ Examine(TemporaryDirectory, filterPlugins(whitelist))
    /\ Pending
    /\ UNCHANGED <<entry, whitelist, progress, alive, tmpDirs, pluginResult,
                   reports, backends, invoked, merged>>
    /\ UNCHANGED <<sinkReturned, files, runs, heap, constructed>>

\* a failed clone that is recorded but does not stop the examination
CloneRejectIgnored ==
    /\ alive /\ pc = "clone"
    /\ \E e \in CloneErrors :
          raised' = [stage |-> "clone", index |-> index, error |-> e]
    /\ Examine(TemporaryDirectory, filterPlugins(whitelist))
    /\ UNCHANGED <<entry, whitelist, progress, alive, tmpDirs, pluginResult,
                   outcome, result, error, reports, backends, invoked, merged>>
    /\ UNCHANGED <<clones, sinkReturned, files, runs, heap, constructed>>

CloneReject ==
    /\ alive /\ pc = "clone"
    /\ \E e \in CloneErrors : Reject("clone", e)
    /\ UNCHANGED clones
    /\ UNCHANGED <<entry, whitelist, progress, alive, tmpDirs, repository,
                   plugins, index, accumulator, pluginResult, reports,
                   backends, invoked, merged>>
    /\ UNCHANGED <<sinkReturned, files, runs, heap, constructed>>

-----------------------------------------------------------------------------
(* lib/index.js: examineGitRepository *)

\* a reducer that constructs the Backend before it calls the progress sink
ReduceStepBackendFirst ==
    /\ alive /\ pc = "reduce" /\ index < Len(plugins)
    /\ backends' = NewBackend(backends, BACKENDS[entry], repository, Reference)
    /\ \/ /\ ~progress
          /\ UNCHANGED <<reports, sinkReturned>>
          /\ pc' = "init"
          /\ Pending
       \/ /\ progress
          /\ reports' = Append(reports, Percentage(index, Len(plugins)))
          /\ \/ /\ \E returned \in SinkReturns : sinkReturned' = returned
                /\ pc' = "init"
                /\ Pending
             \/ /\ \E e \in SinkErrors : Reject("progress", e)
                /\ UNCHANGED sinkReturned
    /\ UNCHANGED index
    /\ UNCHANGED <<entry, whitelist, progress, alive, tmpDirs, repository,
                   plugins, accumulator, pluginResult, invoked, merged>>
    /\ UNCHANGED <<clones, files, runs, heap, constructed>>

\* a reducer that skips the extractor when the progress sink returns false
ReduceStepHonouringSink ==
    /\ alive /\ pc = "reduce" /\ index < Len(plugins)
    /\ \/ /\ ~progress
          /\ UNCHANGED <<reports, sinkReturned, index>>
          /\ backends' = NewBackend(backends, BACKENDS[entry], repository, Reference)
          /\ pc' = "init"
          /\ Pending
       \/ /\ progress
          /\ reports' = Append(reports, Percentage(index, Len(plugins)))
          /\ \/ /\ sinkReturned' = "undefined"
                /\ backends' = NewBackend(backends, BACKENDS[entry], repository,
                                          Reference)
                /\ pc' = "init"
                /\ UNCHANGED index
                /\ Pending
             \/ /\ sinkReturned' = "false"
                /\ index' = index + 1
                /\ UNCHANGED <<backends, pc>>
                /\ Pending
             \/ /\ \E e \in SinkErrors : Reject("progress", e)
                /\ UNCHANGED <<backends, sinkReturned, index>>
    /\ UNCHANGED <<entry, whitelist, progress, alive, tmpDirs, repository,
                   plugins, accumulator, pluginResult, invoked, merged>>
    /\ UNCHANGED <<clones, files, runs, heap, constructed>>

\* the reducer is called for plugins[index]: the progress sink is called, a
\* Backend is constructed and its init() is called
ReduceStep ==
    /\ alive /\ pc = "reduce" /\ index < Len(plugins)
    /\ \/ /\ ~progress
          /\ UNCHANGED <<reports, sinkReturned>>
          /\ backends' = NewBackend(backends, BACKENDS[entry], repository, Reference)
          /\ pc' = "init"
          /\ Pending
       \/ /\ progress
          /\ reports' = Append(reports, Percentage(index, Len(plugins)))
          /\ \/ /\ \E returned \in SinkReturns : sinkReturned' = returned
                /\ backends' = NewBackend(backends, BACKENDS[entry], repository,
                                          Reference)
                /\ pc' = "init"
                /\ Pending
             \/ /\ \E e \in SinkErrors : Reject("progress", e)
                /\ UNCHANGED <<backends, sinkReturned>>
    /\ UNCHANGED <<entry, whitelist, progress, alive, tmpDirs, repository,
                   plugins, index, accumulator, pluginResult, invoked, merged>>
    /\ UNCHANGED <<clones, files, runs, heap, constructed>>

\* every element was reduced: the promise fulfils with the accumulator
ReduceDone ==
    /\ alive /\ pc = "reduce" /\ index = Len(plugins)
    /\ Fulfil(accumulator)
    /\ UNCHANGED <<entry, whitelist, progress, alive, tmpDirs, repository,
                   plugins, index, accumulator, pluginResult, reports,
                   backends, invoked, merged>>
    /\ UNCHANGED <<clones, sinkReturned, files, runs, heap, constructed>>

\* backend.init() fulfils and plugin(backend) is called: it returns a
\* promise, or it throws, or (when the value is not a plugin) the .then of
\* what it returns is not a function
InitFulfil ==
    /\ alive /\ pc = "init"
    /\ backends' = [backends EXCEPT ![Len(backends)].ready = TRUE]
    /\ invoked' = Append(invoked, [plugin |-> plugins[index + 1],
                                   backend |-> Len(backends),
                                   index |-> index])
    /\ IF IsPlugin(plugins[index + 1])
       THEN \/ pc' = "plugin" /\ Pending
            \/ \E e \in PluginErrors : Reject("plugin", e)
       ELSE Reject("plugin", "TypeError")
    /\ UNCHANGED <<entry, whitelist, progress, alive, tmpDirs, repository,
                   plugins, index, accumulator, pluginResult, reports, merged>>
    /\ UNCHANGED <<clones, sinkReturned, files, runs, heap, constructed>>

\* a failed init() that is recorded but does not stop the plugin call
InitRejectIgnored ==
    /\ alive /\ pc = "init"
    /\ \E e \in InitErrors :
          raised' = [stage |-> "init", index |-> index, error |-> e]
    /\ invoked' = Append(invoked, [plugin |-> plugins[index + 1],
                                   backend |-> Len(backends),
                                   index |-> index])
    /\ pc' = "plugin"
    /\ UNCHANGED <<entry, whitelist, progress, alive, tmpDirs, repository,
                   plugins, index, accumulator, pluginResult, outcome, result,
                   error, reports, backends, merged>>
    /\ UNCHANGED <<clones, sinkReturned, files, runs, heap, constructed>>

InitReject ==
    /\ alive /\ pc = "init"
    /\ \E e \in InitErrors : Reject("init", e)
    /\ UNCHANGED <<entry, whitelist, progress, alive, tmpDirs, repository,
                   plugins, index, accumulator, pluginResult, reports,
                   backends, invoked, merged>>
    /\ UNCHANGED <<clones, sinkReturned, files, runs, heap, constructed>>

\* a reducer that does not return the promise of the merge: the next reducer
\* call starts while the merge is still to come
PluginFulfilNoWait ==
    /\ alive /\ pc = "plugin"
    /\ index' = index + 1
    /\ pc' = "reduce"
    /\ Pending
    /\ UNCHANGED <<entry, whitelist, progress, alive, tmpDirs, repository,
                   plugins, accumulator, pluginResult, reports, backends,
                   invoked, merged>>
    /\ UNCHANGED <<clones, sinkReturned, files, runs, heap, constructed>>

\* the promise of the plugin fulfils with a partial result
PluginFulfil ==
    /\ alive /\ pc = "plugin"
    /\ \E partial \in PartialResults : pluginResult' = partial
    /\ pc' = "merge"
    /\ Pending
    /\ UNCHANGED <<entry, whitelist, progress, alive, tmpDirs, repository,
                   plugins, index, accumulator, reports, backends, invoked,
                   merged>>
    /\ UNCHANGED <<clones, sinkReturned, files, runs, heap, constructed>>

\* a best-effort pipeline: the failure is recorded and the next extractor runs
PluginRejectBestEffort ==
    /\ alive /\ pc = "plugin"
    /\ \E e \in PluginErrors :
          raised' = [stage |-> "plugin", index |-> index, error |-> e]
    /\ index' = index + 1
    /\ pc' = "reduce"
    /\ UNCHANGED <<entry, whitelist, progress, alive, tmpDirs, repository,
                   plugins, accumulator, pluginResult, outcome, result, error,
                   reports, backends, invoked, merged>>
    /\ UNCHANGED <<clones, sinkReturned, files, runs, heap, constructed>>

PluginReject ==
    /\ alive /\ pc = "plugin"
    /\ \E e \in PluginErrors : Reject("plugin", e)
    /\ UNCHANGED <<entry, whitelist, progress, alive, tmpDirs, repository,
                   plugins, index, accumulator, pluginResult, reports,
                   backends, invoked, merged>>
    /\ UNCHANGED <<clones, sinkReturned, files, runs, heap, constructed>>

\* _.merge(accumulator, result) in the callback of the plugin's promise; its
\* value is the accumulator of the next reducer call
MergeStep ==
    /\ alive /\ pc = "merge"
    /\ accumulator' = merge(accumulator, pluginResult)
    /\ merged' = merged + 1
    /\ index' = index + 1
    /\ pluginResult' = Undefined
    /\ pc' = "reduce"
    /\ Pending
    /\ UNCHANGED <<entry, whitelist, progress, alive, tmpDirs, repository,
                   plugins, reports, backends, invoked>>
    /\ UNCHANGED <<clones, sinkReturned, files, runs, heap, constructed>>

-----------------------------------------------------------------------------
(* lib/index.js: tmp.setGracefulCleanup() *)

\* the host process exits: the exit hook of tmp removes the directories it
\* created (unsafeCleanup: also when they are not empty)
ProcessExit ==
    /\ alive
    /\ alive' = FALSE
    /\ tmpDirs' = {}
    /\ UNCHANGED <<entry, whitelist, progress, pc, repository, plugins, index,
                   accumulator, pluginResult, outcome, result, error, raised,
                   reports, backends, invoked, merged>>
    /\ UNCHANGED <<clones, sinkReturned, files, runs, heap, constructed>>

-----------------------------------------------------------------------------
(* Specification of a run of local or remote *)

InitRun ==
    /\ entry = "none"
    /\ pc = "idle"
    /\ alive = TRUE
    /\ tmpDirs = {}
    /\ repository = GitRepository
    /\ plugins = <<>>
    /\ index = 0
    /\ accumulator = EmptyObject
    /\ pluginResult = Undefined
    /\ outcome = "pending"
    /\ result = Undefined
    /\ error = "none"
    /\ raised = NoFailure
    /\ reports = <<>>
    /\ backends = <<>>
    /\ invoked = <<>>
    /\ merged = 0
    /\ clones = <<>>
    /\ sinkReturned = "none"
    /\ heap = <<>>
    /\ constructed = <<>>

Init ==
    /\ whitelist \in Whitelists(RunNames, MaxRunWhitelistLen)
    /\ progress \in BOOLEAN
    /\ InitRun
    /\ runs = IdleRuns
    /\ files = NoFiles

Next ==
    \/ Remote
    \/ Local
    \/ TmpDirFulfil
    \/ TmpDirReject
    \/ CloneFulfil
    \/ CloneReject
    \/ ReduceStep
    \/ ReduceDone
    \/ InitFulfil
    \/ InitReject
    \/ PluginFulfil
    \/ PluginReject
    \/ MergeStep
    \/ ProcessExit

Spec == Init /\ [][Next]_vars

-----------------------------------------------------------------------------
(* Two calls of local or remote in flight at once.  Each call has the      *)
(* state of a single call; the accumulators and the Backend constructed are  *)
(* objects of one heap, and the temporary directories are on one disk.     *)

\* a single accumulator object that every call is given
SharedAccumulator(objects) == 1

\* accumulator: {} evaluates to a new object at each call
AllocAccumulator(objects) == Len(objects) + 1

\* the path tmp.dirAsync makes: a name no existing directory has
TmpName(disk) == "/tmp/scrutinizer_" \o ToString(Cardinality(disk) + 1)

\* the variables of the single call, which the two calls leave alone
single == <<entry, whitelist, progress, pc, repository, plugins, index,
            accumulator, pluginResult, outcome, result, error, raised,
            reports, backends, invoked, merged, clones, sinkReturned, files>>

RunRejected(run, stage, e) ==
    [run EXCEPT !.outcome = "rejected", !.error = e, !.pc = "done",
                !.raised = [stage |-> stage, index |-> run.index, error |-> e]]

\* examineGitRepository(options) of one call, with accumulator: {}
RunExamine(r, run, repo) ==
    LET address == AllocAccumulator(heap)
    IN  /\ heap' = IF address > Len(heap) THEN Append(heap, EmptyObject)
                   ELSE [heap EXCEPT ![address] = EmptyObject]
        /\ runs' = [runs EXCEPT ![r] =
                      [run EXCEPT !.repository = repo,
                                  !.plugins = filterPlugins(run.whitelist),
                                  !.acc = address, !.index = 0,
                                  !.pc = "reduce"]]

RunRemote(r) ==
    /\ alive /\ runs[r].pc = "idle"
    /\ RunExamine(r, [runs[r] EXCEPT !.entry = "remote"], GitRepository)
    /\ UNCHANGED <<alive, tmpDirs, constructed, single>>

RunLocal(r) ==
    /\ alive /\ runs[r].pc = "idle"
    /\ runs' = [runs EXCEPT ![r].entry = "local", ![r].pc = "tmp"]
    /\ UNCHANGED <<alive, tmpDirs, heap, constructed, single>>

RunTmpDir(r) ==
    /\ alive /\ runs[r].pc = "tmp"
    /\ \/ /\ tmpDirs' = tmpDirs \cup {TmpName(tmpDirs)}
          /\ runs' = [runs EXCEPT ![r].tmpDir = TmpName(tmpDirs),
                                  ![r].pc = "clone"]
       \/ /\ \E e \in TmpErrors :
                runs' = [runs EXCEPT ![r] = RunRejected(runs[r], "tmp", e)]
          /\ UNCHANGED tmpDirs
    /\ UNCHANGED <<alive, heap, constructed, single>>

RunClone(r) ==
    /\ alive /\ runs[r].pc = "clone"
    /\ \/ RunExamine(r, runs[r], runs[r].tmpDir)
       \/ /\ \E e \in CloneErrors :
                runs' = [runs EXCEPT ![r] = RunRejected(runs[r], "clone", e)]
          /\ UNCHANGED heap
    /\ UNCHANGED <<alive, tmpDirs, constructed, single>>

RunReduceStep(r) ==
    LET run == runs[r]
        reported == IF run.progress
                    THEN Append(run.reports,
                                Percentage(run.index, Len(run.plugins)))
                    ELSE run.reports
        created == NewBackend(constructed, BACKENDS[run.entry], run.repository,
                              Reference)
    IN  /\ alive /\ run.pc = "reduce" /\ run.index < Len(run.plugins)
        /\ \/ /\ constructed' = created
              /\ runs' = [runs EXCEPT ![r] =
                            [run EXCEPT !.reports = reported,
                                        !.backends = Append(@, Len(created)),
                                        !.pc = "init"]]
           \/ /\ run.progress
              /\ \E e \in SinkErrors :
                    runs' = [runs EXCEPT ![r] =
                               RunRejected([run EXCEPT !.reports = reported],
                                           "progress", e)]
              /\ UNCHANGED constructed
        /\ UNCHANGED <<alive, tmpDirs, heap, single>>

RunReduceDone(r) ==
    /\ alive /\ runs[r].pc = "reduce" /\ runs[r].index = Len(runs[r].plugins)
    /\ runs' = [runs EXCEPT ![r].outcome = "fulfilled",
                            ![r].result = runs[r].acc, ![r].pc = "done"]
    /\ UNCHANGED <<alive, tmpDirs, heap, constructed, single>>

RunInit(r) ==
    LET run == runs[r]
        backend == run.backends[Len(run.backends)]
    IN  /\ alive /\ run.pc = "init"
        /\ \/ /\ constructed' = [constructed EXCEPT ![backend].ready = TRUE]
              /\ \/ runs' = [runs EXCEPT ![r] =
                               [run EXCEPT !.invoked =
                                               Append(@, [plugin |-> run.plugins[run.index + 1],
                                                          backend |-> backend]),
                                           !.pc = "plugin"]]
                 \/ \E e \in PluginErrors :
                       runs' = [runs EXCEPT ![r] =
                                  RunRejected(
                                     [run EXCEPT !.invoked =
                                                     Append(@, [plugin |-> run.plugins[run.index + 1],
                                                                backend |-> backend])],
                                     "plugin", e)]
           \/ /\ \E e \in InitErrors :
                    runs' = [runs EXCEPT ![r] = RunRejected(run, "init", e)]
              /\ UNCHANGED constructed
        /\ UNCHANGED <<alive, tmpDirs, heap, single>>

RunPlugin(r) ==
    /\ alive /\ runs[r].pc = "plugin"
    /\ \/ \E partial \in TwoRunPartials :
             runs' = [runs EXCEPT ![r].pluginResult = partial, ![r].pc = "merge"]
       \/ \E e \in PluginErrors :
             runs' = [runs EXCEPT ![r] = RunRejected(runs[r], "plugin", e)]
    /\ UNCHANGED <<alive, tmpDirs, heap, constructed, single>>

\* _.merge(accumulator, result) changes the accumulator object in place
RunMergeStep(r) ==
    LET run == runs[r]
    IN  /\ alive /\ run.pc = "merge"
        /\ heap' = [heap EXCEPT ![run.acc] = merge(@, run.pluginResult)]
        /\ runs' = [runs EXCEPT ![r] =
                      [run EXCEPT !.solo = merge(@, run.pluginResult),
                                  !.merged = @ + 1, !.index = @ + 1,
                                  !.pluginResult = Undefined,
                                  !.pc = "reduce"]]
        /\ UNCHANGED <<alive, tmpDirs, constructed, single>>

InitTwo ==
    /\ whitelist = [kind |-> "undefined", names |-> <<>>]
    /\ progress = FALSE
    /\ InitRun
    /\ files = NoFiles
    /\ \E starts \in [Runs -> TwoRunWhitelists \X BOOLEAN] :
          runs = [r \in Runs |-> IdleRun(starts[r][1], starts[r][2])]

NextTwo ==
    \E r \in Runs :
        \/ RunRemote(r)
        \/ RunLocal(r)
        \/ RunTmpDir(r)
        \/ RunClone(r)
        \/ RunReduceStep(r)
        \/ RunReduceDone(r)
        \/ RunInit(r)
        \/ RunPlugin(r)
        \/ RunMergeStep(r)

SpecTwo == InitTwo /\ [][NextTwo]_vars

-----------------------------------------------------------------------------
(* The changelog and the architecture plugins.  The contents of a file are *)
(* a string; backend.readFile fulfils with "" for a file that is missing.  *)

Str(text) == [t |-> "string", v |-> text]

\* the contents the files of a repository can have
YamlContents == {"", "- version: 1.0.0"}
ChangelogContents == {"", "# Changelog"}
ArchitectureContents == {"", "  ", "# Design", "<h1>Design</h1>"}

RepositoryFiles ==
    {read \in [FileNames -> YamlContents \cup ChangelogContents
                                \cup ArchitectureContents] :
        /\ read[".versionbot/CHANGELOG.yml"] \in YamlContents
        /\ read["CHANGELOG.md"] \in ChangelogContents
        /\ read["ARCHITECTURE.md"] \in ArchitectureContents
        /\ read["docs/ARCHITECTURE.md"] \in ArchitectureContents}

\* _.isEmpty(contents) of a string: true when it has no character
isEmptyString(contents) == contents = ""

\* yaml.safeLoad(contents): the value the YAML text denotes
safeLoad(contents) ==
    IF contents = "- version: 1.0.0"
    THEN ArrOf(<<Obj("version" :> Str("1.0.0"))>>)
    ELSE Undefined

\* (await convertHtmlToMD(text)).contents: the markdown of an HTML or
\* markdown text, ended by a newline
convertHtmlToMD(text) ==
    CASE text = "<h1>Design</h1>" -> "# Design\n"
      [] text = "# Design" -> "# Design\n"
      [] OTHER -> text

\* String.prototype.trim
trim(text) ==
    CASE text = "# Design\n" -> "# Design"
      [] text = "  " -> ""
      [] OTHER -> text

\* plugins/changelog.js: the inner test is again of contents, the YAML file
changelogPlugin(read) ==
    LET contents == read[".versionbot/CHANGELOG.yml"]
        markdown == read["CHANGELOG.md"]
    IN  IF isEmptyString(contents)
        THEN IF isEmptyString(contents)
             THEN Obj("changelog" :> EmptyArray)
             ELSE Obj("changelog" :> Str(markdown))
        ELSE Obj("changelog" :> safeLoad(contents))

\* an architecture plugin that leaves the field out when nothing is found
architecturePluginOmitting(read) ==
    LET root == trim(convertHtmlToMD(read["ARCHITECTURE.md"]))
        docs == trim(convertHtmlToMD(read["docs/ARCHITECTURE.md"]))
    IN  IF root # "" THEN Obj("architecture" :> Str(root))
        ELSE IF docs # "" THEN Obj("architecture" :> Str(docs))
        ELSE EmptyObject

\* plugins/architecture.js: a || b || null, an empty string being falsy
architecturePlugin(read) ==
    LET root == trim(convertHtmlToMD(read["ARCHITECTURE.md"]))
        docs == trim(convertHtmlToMD(read["docs/ARCHITECTURE.md"]))
    IN  Obj("architecture" :>
               IF root # "" THEN Str(root)
               ELSE IF docs # "" THEN Str(docs)
               ELSE Null)

\* the plugins that have been called
Called == {invoked[i].plugin : i \in 1..Len(invoked)}

\* plugin(backend) of the changelog plugin fulfils
CallChangelog ==
    /\ alive /\ pc \in {"idle", "reduce"}
    /\ "./plugins/changelog" \notin Called
    /\ invoked' = Append(invoked, [plugin |-> "./plugins/changelog",
                                   backend |-> 0, index |-> index])
    /\ pluginResult' = changelogPlugin(files)
    /\ pc' = "merge"
    /\ Pending
    /\ UNCHANGED <<entry, whitelist, progress, alive, tmpDirs, repository,
                   plugins, index, accumulator, reports, backends, merged,
                   clones, sinkReturned, files, runs, heap, constructed>>

\* plugin(backend) of the architecture plugin fulfils
CallArchitecture ==
    /\ alive /\ pc \in {"idle", "reduce"}
    /\ "./plugins/architecture" \notin Called
    /\ invoked' = Append(invoked, [plugin |-> "./plugins/architecture",
                                   backend |-> 0, index |-> index])
    /\ pluginResult' = architecturePlugin(files)
    /\ pc' = "merge"
    /\ Pending
    /\ UNCHANGED <<entry, whitelist, progress, alive, tmpDirs, repository,
                   plugins, index, accumulator, reports, backends, merged,
                   clones, sinkReturned, files, runs, heap, constructed>>

InitPlugins ==
    /\ whitelist = [kind |-> "array", names |-> <<"changelog", "architecture">>]
    /\ progress = FALSE
    /\ InitRun
    /\ runs = IdleRuns
    /\ files \in RepositoryFiles

NextPlugins ==
    \/ CallChangelog
    \/ CallArchitecture
    \/ MergeStep

SpecPlugins == InitPlugins /\ [][NextPlugins]_vars

-----------------------------------------------------------------------------
(* Two extractors that contribute a sequence under the same field. *)

MaxSeqLen == 2

\* the elements of the sequences: scalars and mappings
SequenceElements ==
    {Num(1), Num(2), Obj("x" :> Num(1)), Obj("y" :> Num(2))}

\* the partial results that hold a sequence under the field f
SequenceResults ==
    {Obj("f" :> ArrOf(s)) : s \in SeqsUpTo(SequenceElements, MaxSeqLen)}

\* plugin(backend) fulfils with a sequence under the field f
ContributeSequence ==
    /\ alive /\ pc \in {"idle", "reduce"}
    /\ Len(invoked) < 2
    /\ invoked' = Append(invoked, [plugin |-> "sequence", backend |-> 0,
                                   index |-> index])
    /\ \E partial \in SequenceResults : pluginResult' = partial
    /\ pc' = "merge"
    /\ Pending
    /\ UNCHANGED <<entry, whitelist, progress, alive, tmpDirs, repository,
                   plugins, index, accumulator, reports, backends, merged,
                   clones, sinkReturned, files, runs, heap, constructed>>

InitSequences ==
    /\ whitelist = [kind |-> "undefined", names |-> <<>>]
    /\ progress = FALSE
    /\ InitRun
    /\ runs = IdleRuns
    /\ files = NoFiles

NextSequences ==
    \/ ContributeSequence
    \/ MergeStep

SpecSequences == InitSequences /\ [][NextSequences]_vars

-----------------------------------------------------------------------------
(* Specification of the selection alone: filterPlugins applied to every    *)
(* whitelist of up to MaxWhitelistLen names                                *)

InitSelect ==
    /\ whitelist \in Whitelists(AllNames, MaxWhitelistLen)
    /\ progress = FALSE
    /\ InitRun
    /\ runs = IdleRuns
    /\ files = NoFiles

Select ==
    /\ pc = "idle"
    /\ plugins' = filterPlugins(whitelist)
    /\ pc' = "selected"
    /\ UNCHANGED <<entry, whitelist, progress, alive, tmpDirs, repository,
                   index, accumulator, pluginResult, outcome, result, error,
                   raised, reports, backends, invoked, merged>>
    /\ UNCHANGED <<clones, sinkReturned, files, runs, heap, constructed>>

NextSelect == Select

SpecSelect == InitSelect /\ [][NextSelect]_vars

-----------------------------------------------------------------------------
(* Plugin selection *)

\* the whitelist is a non-empty array of names
NonEmptyWhitelist == whitelist.kind = "array" /\ whitelist.names # <<>>

\* the position of a registered extractor in the declaration order
CanonicalIndex(value) ==
    CHOOSE i \in 1..Len(BUILTIN_KEYS) : PluginModule(BUILTIN_KEYS[i]) = value

\* the registered extractors
Registered == {PluginModule(BUILTIN_KEYS[i]) : i \in 1..Len(BUILTIN_KEYS)}

\* the position at which the name of a registered extractor first appears
FirstIndex(names, value) ==
    CHOOSE i \in 1..Len(names) :
        /\ PluginModule(names[i]) = value
        /\ \A j \in 1..(i - 1) : PluginModule(names[j]) # value

\* C1 as stated: with a non-empty whitelist the selected extractors are
\* listed in the declaration order of BUILTIN_PLUGINS, whatever the order of
\* the names in the whitelist.
C1_CanonicalOrder ==
    (pc = "selected" /\ NonEmptyWhitelist) =>
        \A i, j \in 1..Len(plugins) :
            (i < j /\ plugins[i] \in Registered /\ plugins[j] \in Registered)
                => CanonicalIndex(plugins[i]) < CanonicalIndex(plugins[j])

\* C1 as amended: with a non-empty whitelist the selected extractors are
\* listed in the order in which their names first appear in the whitelist,
\* each once.
C1_WhitelistOrder ==
    (pc = "selected" /\ NonEmptyWhitelist) =>
        \A i, j \in 1..Len(plugins) :
            (i < j /\ plugins[i] \in Registered /\ plugins[j] \in Registered)
                => /\ \E k \in 1..Len(whitelist.names) :
                          PluginModule(whitelist.names[k]) = plugins[i]
                   /\ \E k \in 1..Len(whitelist.names) :
                          PluginModule(whitelist.names[k]) = plugins[j]
                   /\ FirstIndex(whitelist.names, plugins[i])
                          < FirstIndex(whitelist.names, plugins[j])

C1_Witness ==
    /\ pc = "selected"
    /\ whitelist.names = <<"readme", "license">>
    /\ plugins = <<"./plugins/readme", "./plugins/license">>

\* C2: with a non-empty whitelist the returned list holds exactly the
\* registered extractors whose name is in the whitelist: a name that is not
\* registered adds no entry.
C2_ExactlyWhitelisted ==
    (pc = "selected" /\ NonEmptyWhitelist) =>
        /\ Len(plugins) <= Len(whitelist.names)
        /\ Range(plugins) =
              {PluginModule(name) :
                  name \in Range(whitelist.names) \cap Range(BUILTIN_KEYS)}

\* C3: with an undefined, null or empty whitelist the returned list is every
\* extractor of BUILTIN_PLUGINS, each once, in declaration order.
C3_AllInCanonicalOrder ==
    (pc = "selected" /\
        (whitelist.kind \in {"undefined", "null"} \/ whitelist.names = <<>>)) =>
        /\ Len(plugins) = Len(BUILTIN_KEYS)
        /\ \A i \in 1..Len(plugins) : plugins[i] = PluginModule(BUILTIN_KEYS[i])
        /\ \A i, j \in 1..Len(plugins) : plugins[i] = plugins[j] => i = j

C3_Witness ==
    /\ pc = "selected"
    /\ whitelist.kind = "null"
    /\ Len(plugins) = 24
    /\ plugins[1] = "./plugins/license"
    /\ plugins[24] = "./plugins/logo-brandmark"

-----------------------------------------------------------------------------
(* The pipeline *)

\* C4: when the extractor at (0-based) position k rejects or throws, no step
\* of a later extractor is ever taken (no progress report, no Backend, no
\* plugin call, no merge), the run is rejected with the very error the
\* extractor raised and never fulfils.
C4_FailFastOnExtractor ==
    raised.stage = "plugin" =>
        /\ pc = "done"
        /\ outcome = "rejected"
        /\ error = raised.error
        /\ result = Undefined
        /\ index = raised.index
        /\ Len(invoked) = raised.index + 1
        /\ invoked[Len(invoked)].plugin = plugins[raised.index + 1]
        /\ Len(backends) = raised.index + 1
        /\ progress => Len(reports) = raised.index + 1
        /\ merged = raised.index

C4_Witness ==
    /\ raised.stage = "plugin"
    /\ raised.index = 1
    /\ error = "PluginError"
    /\ Len(plugins) = Len(BUILTIN_KEYS)
    /\ accumulator # EmptyObject
    /\ outcome = "rejected"

\* C5: when backend.init() rejects for the extractor at position k, that
\* extractor is never called, nothing is merged for it, no later extractor
\* runs, and the run is rejected with the error of init() and never fulfils.
C5_FailFastOnInit ==
    raised.stage = "init" =>
        /\ pc = "done"
        /\ outcome = "rejected"
        /\ error = raised.error
        /\ error \in InitErrors
        /\ result = Undefined
        /\ index = raised.index
        /\ Len(invoked) = raised.index
        /\ \A i \in 1..Len(invoked) : invoked[i].index < raised.index
        /\ Len(backends) = raised.index + 1
        /\ ~backends[Len(backends)].ready
        /\ progress => Len(reports) = raised.index + 1
        /\ merged = raised.index

C5_Witness ==
    /\ raised.stage = "init"
    /\ raised.index = 1
    /\ error = "ReferenceNotFoundError"
    /\ Len(plugins) = Len(BUILTIN_KEYS)
    /\ accumulator # EmptyObject
    /\ outcome = "rejected"

\* a number or null
IsScalar(value) == value.t \in {"number", "null"}

\* after is the deep merge of the partial result into before: a field the
\* partial result lacks is kept, a scalar of the partial result wins, an
\* undefined value changes nothing, and a mapping is merged key by key into
\* a mapping (it replaces a value that is not an object)
DeepMerged(before, partial, after) ==
    /\ after.t = "object"
    /\ Keys(after) = Keys(before) \cup Keys(partial)
    /\ \A k \in Keys(after) :
          IF k \notin Keys(partial) THEN after.m[k] = before.m[k]
          ELSE LET new == partial.m[k]
                   old == IF k \in Keys(before) THEN before.m[k] ELSE Undefined
               IN  /\ IsScalar(new) => after.m[k] = new
                   /\ new = Undefined => after.m[k] = old
                   /\ (new.t = "object" /\ old.t # "object" /\ old.t # "array")
                          => after.m[k] = new
                   /\ (new.t = "object" /\ old.t = "object") =>
                          /\ after.m[k].t = "object"
                          /\ Keys(after.m[k]) = Keys(old) \cup Keys(new)
                          /\ \A j \in Keys(after.m[k]) :
                                after.m[k].m[j] =
                                    IF j \in Keys(new) THEN new.m[j] ELSE old.m[j]

\* C6: the accumulator is the empty mapping when the pipeline starts, each
\* processed extractor changes it to the deep merge of the extractor's
\* partial result into it (later scalar wins, mappings merged key by key),
\* nothing else changes it, and the run fulfils with the accumulator reached
\* after the last extractor.
C6_AccumulatorIsDeepMerge ==
    /\ [][(pc # "reduce" /\ pc' = "reduce" /\ pc # "merge")
            => (accumulator' = EmptyObject /\ merged' = 0)]_vars
    /\ [][pc = "merge" /\ pc' # "merge"
            => /\ DeepMerged(accumulator, pluginResult, accumulator')
               /\ merged' = merged + 1
               /\ merged' = index']_vars
    /\ [][(pc = "reduce" \/ pc = "init" \/ pc = "plugin")
            => (accumulator' = accumulator)]_vars
    /\ [][outcome' = "fulfilled"
            => (result' = accumulator /\ merged = Len(plugins))]_vars

C6_Witness ==
    /\ outcome = "fulfilled"
    /\ Len(plugins) = 2
    /\ merged = 2
    /\ result = Obj("f" :> Obj("x" :> Num(1) @@ "y" :> Num(1)))

\* C7: once the promise returned by local() has settled and while the host
\* process runs, the temporary directory of the run does not exist.
C7_TemporaryCloneRemoved ==
    (entry = "local" /\ outcome # "pending" /\ alive)
        => TemporaryDirectory \notin tmpDirs

\* the number of reducer calls made so far
Started ==
    IF pc \in {"init", "plugin", "merge"} THEN index + 1
    ELSE IF pc = "done" /\ raised.stage \in {"progress", "init", "plugin"}
         THEN index + 1
         ELSE index

\* p is the integer part of i * 100 / n
IsFloorPercent(p, i, n) == p * n <= i * 100 /\ i * 100 < (p + 1) * n

\* C8: with a progress sink, it is called once per extractor started, before
\* the extractor runs, with floor(i * 100 / n) for the 0-based position i:
\* the first value is 0, every value is an integer of 0..99, the values never
\* decrease, 100 is never reported, and a successful run ends with
\* floor((n - 1) * 100 / n).
C8_ProgressReports ==
    progress =>
        /\ Len(reports) = Started
        /\ Len(invoked) <= Len(reports)
        /\ Len(backends) <= Len(reports)
        /\ \A i \in 1..Len(reports) :
              /\ IsFloorPercent(reports[i], i - 1, Len(plugins))
              /\ reports[i] \in 0..99
        /\ Len(reports) >= 1 => reports[1] = 0
        /\ \A i \in 1..(Len(reports) - 1) : reports[i] <= reports[i + 1]
        /\ (outcome = "fulfilled" /\ Len(plugins) >= 1) =>
              /\ Len(reports) = Len(plugins)
              /\ IsFloorPercent(reports[Len(reports)], Len(plugins) - 1,
                                Len(plugins))

C8_Witness ==
    /\ progress
    /\ outcome = "fulfilled"
    /\ Len(reports) = 24
    /\ reports[2] = 4
    /\ reports[24] = 95

\* C9: the extractors are called in the order of the selected list, and no
\* part of a step (progress report, Backend, init, plugin call) starts
\* before every earlier extractor's result has been merged: at most one
\* extractor is in progress.
C9_StrictlySequential ==
    /\ \A i \in 1..Len(invoked) :
          /\ invoked[i].index = i - 1
          /\ invoked[i].plugin = plugins[i]
    /\ Len(reports) <= merged + 1
    /\ Len(backends) <= merged + 1
    /\ Len(invoked) <= merged + 1
    /\ Started - merged \in {0, 1}
    /\ pc = "reduce" => (Len(backends) = merged /\ Len(invoked) = merged)

C9_Witness ==
    /\ pc = "plugin"
    /\ merged = 2
    /\ Len(invoked) = 3
    /\ invoked[3].plugin = "./plugins/changelog"

\* C10: every plugin call gets a Backend of its own, constructed for the
\* run's repository and reference, on which init() was called exactly once
\* and has fulfilled before the call; no Backend is passed to two calls.
C10_BackendLifecycle ==
    /\ \A i \in 1..Len(invoked) :
          /\ invoked[i].backend \in 1..Len(backends)
          /\ backends[invoked[i].backend].ready
          /\ backends[invoked[i].backend].inits = 1
          /\ backends[invoked[i].backend].repository = repository
          /\ backends[invoked[i].backend].reference = Reference
          /\ backends[invoked[i].backend].type = BACKENDS[entry]
    /\ \A i, j \in 1..Len(invoked) :
          invoked[i].backend = invoked[j].backend => i = j
    /\ \A b \in 1..Len(backends) : backends[b].inits = 1
    /\ Len(backends) - Len(invoked) \in {0, 1}

C10_Witness ==
    /\ entry = "local"
    /\ Len(invoked) = 2
    /\ invoked[1].backend = 1
    /\ invoked[2].backend = 2
    /\ backends[2].ready
    /\ backends[2].repository = TemporaryDirectory

-----------------------------------------------------------------------------
(* The temporary clone of a local run *)

\* C11: when creating the temporary directory or cloning into it fails,
\* local() is rejected with that error, and no progress report is made, no
\* Backend is constructed, no extractor is called and nothing is merged.
C11_CloneFailureAborts ==
    raised.stage \in {"tmp", "clone"} =>
        /\ entry = "local"
        /\ pc = "done"
        /\ outcome = "rejected"
        /\ error = raised.error
        /\ error \in TmpErrors \cup CloneErrors
        /\ result = Undefined
        /\ reports = <<>>
        /\ backends = <<>>
        /\ invoked = <<>>
        /\ merged = 0
        /\ \A c \in 1..Len(clones) : ~clones[c].done

C11_Witness ==
    /\ raised.stage = "clone"
    /\ error = "CloneError"
    /\ outcome = "rejected"
    /\ progress
    /\ whitelist.kind = "undefined"
    /\ Len(clones) = 1

\* C12: a local run clones the caller's repository into the temporary
\* directory exactly once, the clone is complete before the first Backend is
\* constructed, and every Backend is bound to the temporary directory, never
\* to the caller's path, which is only the source of the clone.
C12_BackendsOnTemporaryClone ==
    entry = "local" =>
        /\ Len(clones) <= 1
        /\ \A c \in 1..Len(clones) :
              /\ clones[c].source = GitRepository
              /\ clones[c].target = TemporaryDirectory
        /\ backends # <<>> => (Len(clones) = 1 /\ clones[1].done)
        /\ pc \in {"reduce", "init", "plugin", "merge"}
              => (Len(clones) = 1 /\ clones[1].done)
        /\ \A b \in 1..Len(backends) :
              /\ backends[b].repository = TemporaryDirectory
              /\ backends[b].repository # GitRepository
              /\ backends[b].type = "fs"

C12_Witness ==
    /\ entry = "local"
    /\ Len(clones) = 1
    /\ clones[1].done
    /\ Len(backends) = 2
    /\ backends[2].repository = TemporaryDirectory
    /\ outcome = "fulfilled"

-----------------------------------------------------------------------------
(* Concurrent calls *)

\* C13: two calls in flight at once, their steps interleaved in any way, have
\* each their own accumulator, their own Backend instances and (local calls)
\* their own temporary directory; the accumulator of each call, and the
\* value it fulfils with, is what the call's own partial results merge to,
\* its reports are those of its own positions and its error is its own.
C13_RunsAreIndependent ==
    /\ \A r \in Runs :
          LET run == runs[r]
          IN  /\ run.acc # 0 => (run.acc \in 1..Len(heap) /\ heap[run.acc] = run.solo)
              /\ run.outcome = "fulfilled" =>
                    /\ run.result = run.acc
                    /\ heap[run.result] = run.solo
                    /\ run.merged = Len(run.plugins)
              /\ run.outcome = "rejected" => run.error = run.raised.error
              /\ \A i \in 1..Len(run.reports) :
                    IsFloorPercent(run.reports[i], i - 1, Len(run.plugins))
              /\ run.progress => Len(run.reports) \in {run.merged, run.merged + 1}
              /\ \A i \in 1..Len(run.backends) :
                    /\ constructed[run.backends[i]].repository = run.repository
                    /\ constructed[run.backends[i]].type = BACKENDS[run.entry]
              /\ \A i \in 1..Len(run.invoked) :
                    /\ run.invoked[i].backend = run.backends[i]
                    /\ run.invoked[i].plugin = run.plugins[i]
              /\ (run.entry = "local" /\ run.acc # 0) =>
                    (run.repository = run.tmpDir /\ run.tmpDir \in tmpDirs)
    /\ \A r, q \in Runs :
          r # q =>
              /\ runs[r].acc # 0 => runs[r].acc # runs[q].acc
              /\ Range(runs[r].backends) \cap Range(runs[q].backends) = {}
              /\ runs[r].tmpDir # "none" => runs[r].tmpDir # runs[q].tmpDir

C13_Witness ==
    /\ runs["A"].entry = "local"
    /\ runs["B"].entry = "remote"
    /\ runs["A"].pc = "merge"
    /\ runs["A"].merged = 1
    /\ runs["B"].outcome = "fulfilled"
    /\ runs["B"].merged = 2
    /\ heap[runs["A"].acc] = Obj("f" :> Num(1))
    /\ heap[runs["B"].acc] = Obj("f" :> Num(2) @@ "g" :> Num(1))
    /\ runs["A"].acc > runs["B"].acc
    /\ Len(runs["A"].backends) = 2
    /\ runs["A"].backends[1] < runs["B"].backends[2]


\* the plugin whose partial result is waiting to be merged
JustCalled(plugin) ==
    /\ pc = "merge"
    /\ invoked # <<>>
    /\ invoked[Len(invoked)].plugin = plugin

\* C14: when .versionbot/CHANGELOG.yml is missing or empty and CHANGELOG.md
\* has contents, the changelog of the partial result is derived from the
\* contents of CHANGELOG.md and is not the empty list.
C14_ChangelogFromMarkdown ==
    (/\ JustCalled("./plugins/changelog")
     /\ isEmptyString(files[".versionbot/CHANGELOG.yml"])
     /\ ~isEmptyString(files["CHANGELOG.md"]))
    => /\ Prop(pluginResult, "changelog") # EmptyArray
       /\ Prop(pluginResult, "changelog") = Str(files["CHANGELOG.md"])

\* no field of an object has the value null
NoNullField(object) ==
    \A key \in Keys(object) : Prop(object, key) # Null

NoArchitecture ==
    /\ trim(convertHtmlToMD(files["ARCHITECTURE.md"])) = ""
    /\ trim(convertHtmlToMD(files["docs/ARCHITECTURE.md"])) = ""

ElementMerged(old, new, after) ==
    /\ IsScalar(new) => after = new
    /\ (new.t = "object" /\ old.t # "object") => after = new
    /\ (new.t = "object" /\ old.t = "object") =>
          /\ after.t = "object"
          /\ Keys(after) = Keys(old) \cup Keys(new)
          /\ \A k \in Keys(after) :
                after.m[k] = IF k \in Keys(new) THEN new.m[k] ELSE old.m[k]

\* after is the sequence old with the sequence new merged into it position
\* by position
SequenceMerged(old, new, after) ==
    /\ after.t = "array"
    /\ Keys(after) = Keys(old) \cup Keys(new)
    /\ \A j \in Keys(after) :
          IF j \notin Keys(new) THEN after.m[j] = old.m[j]
          ELSE ElementMerged(Prop(old, j), new.m[j], after.m[j])
    /\ new = EmptyArray => after = old

\* C16: when a partial result holds a sequence under a field that already
\* holds a sequence, the merge builds the field position by position:
\* element j of the later sequence is merged into element j of the earlier
\* one, the elements of the earlier sequence beyond the end of the later one
\* are kept, and an empty later sequence leaves the field unchanged.
C16_SequencesMergedByPosition ==
    [][(/\ pc = "merge" /\ pc' = "reduce"
        /\ Prop(accumulator, "f").t = "array"
        /\ Prop(pluginResult, "f").t = "array")
       => SequenceMerged(Prop(accumulator, "f"), Prop(pluginResult, "f"),
                         Prop(accumulator', "f"))]_vars

C16_Witness ==
    /\ pc = "reduce" /\ merged = 2 /\ Len(invoked) = 2
    /\ accumulator =
          Obj("f" :> ArrOf(<<Obj("x" :> Num(1) @@ "y" :> Num(2)), Num(2)>>))


\* the Backends on which init() has fulfilled
Ready == {b \in 1..Len(backends) : backends[b].ready}

\* C17: within the step of extractor i the events come in the order progress
\* report, Backend construction, init, plugin call, merge, each only after
\* the one before it; so when init or the plugin fails at position k of n
\* the sink has received exactly k + 1 reports, the last of them
\* floor(k * 100 / n), and exactly k merges have been applied.
C17_OrderWithinStep ==
    /\ [](/\ progress => Len(backends) <= Len(reports)
          /\ Cardinality(Ready) <= Len(backends)
          /\ Len(invoked) <= Cardinality(Ready)
          /\ merged <= Len(invoked)
          /\ Len(backends) <= merged + 1
          /\ progress => Len(reports) <= merged + 1
          /\ raised.stage = "progress" => Len(backends) = Len(reports) - 1
          /\ (progress /\ raised.stage \in {"init", "plugin"}) =>
                /\ Len(reports) = raised.index + 1
                /\ IsFloorPercent(reports[Len(reports)], raised.index,
                                  Len(plugins))
                /\ merged = raised.index)
    /\ [][Len(backends') = Len(backends) + 1
            => /\ progress => Len(reports') = Len(backends')
               /\ Len(backends) = merged
               /\ Len(invoked) = merged]_vars
    /\ [][Cardinality(Ready') = Cardinality(Ready) + 1
            => /\ Len(backends) = Cardinality(Ready')
               /\ Len(invoked) = Cardinality(Ready)]_vars
    /\ [][Len(invoked') = Len(invoked) + 1
            => /\ Len(invoked') \in Ready'
               /\ merged = Len(invoked)]_vars
    /\ [][merged' = merged + 1
            => (Len(invoked) = merged' /\ pc = "merge")]_vars

C17_Witness ==
    /\ progress
    /\ raised.stage = "init"
    /\ raised.index = 1
    /\ Len(plugins) = 2
    /\ reports = <<0, 50>>
    /\ merged = 1
    /\ Len(backends) = 2

\* C19: when the progress sink throws for the extractor at position i the
\* run rejects with the error it threw, no Backend is constructed for that
\* extractor or a later one and neither is called; when the sink returns,
\* whatever it returns, the step goes on to the Backend and init of the same
\* extractor, and a run that fulfils has called and merged every extractor.
C19_ThrowingSinkAborts ==
    /\ [](raised.stage = "progress" =>
            /\ progress
            /\ pc = "done"
            /\ outcome = "rejected"
            /\ error = raised.error
            /\ error \in SinkErrors
            /\ result = Undefined
            /\ Len(reports) = raised.index + 1
            /\ Len(backends) = raised.index
            /\ Len(invoked) = raised.index
            /\ merged = raised.index)
    /\ [][(Len(reports') = Len(reports) + 1 /\ outcome' = "pending")
            => /\ sinkReturned' \in SinkReturns
               /\ pc' = "init"
               /\ Len(backends') = Len(backends) + 1
               /\ index' = index
               /\ accumulator' = accumulator]_vars
    /\ [](outcome = "fulfilled" =>
            /\ Len(invoked) = Len(plugins)
            /\ merged = Len(plugins)
            /\ result = accumulator)

C19_Witness ==
    /\ raised.stage = "progress"
    /\ raised.index = 1
    /\ outcome = "rejected"
    /\ error = "SinkError"
    /\ sinkReturned = "false"
    /\ Len(backends) = 1
    /\ reports = <<0, 50>>


\* the whitelist is not empty and names no key of BUILTIN_PLUGINS
OnlyUnknownNames ==
    /\ NonEmptyWhitelist
    /\ Range(whitelist.names) \cap Range(BUILTIN_KEYS) = {}

\* C18: with a non-empty whitelist of unknown names only, the selected list
\* is empty and the run fulfils with the empty mapping: the progress sink is
\* not called, no Backend is constructed and no extractor is called; a local
\* run has created its temporary clone before.
C18_NothingRunsForUnknownNames ==
    (OnlyUnknownNames /\ entry # "none") =>
        /\ plugins = <<>>
        /\ reports = <<>>
        /\ backends = <<>>
        /\ invoked = <<>>
        /\ merged = 0
        /\ raised.stage \notin {"progress", "init", "plugin"}
        /\ outcome = "fulfilled" =>
              /\ result = EmptyObject
              /\ entry = "local" => (Len(clones) = 1 /\ clones[1].done)

====
